---------------------------- MODULE Spec2Model ----------------------------
(***************************************************************************)
(* A model of the configuration layer of bentoml/OneDiffusion:             *)
(*   src/src/sdserver/_configuration.py       (SDConfig and its helpers)   *)
(*   src/src/onediffusion/utils/import_utils.py (ModelEnv, backend probe)  *)
(*                                                                         *)
(* Python strings are sequences of one-character strings, so that          *)
(* upper(), strip(), replace(), startswith() and the inflection rules are  *)
(* computed and not assumed.  Python values are sequences too (the int 1   *)
(* is <<"1">>); objects that are not scalars are one-element sequences     *)
(* holding a bracketed tag (<<"<None>">>, <<"<method>">>), which no        *)
(* Python string equals.                                                   *)
(*                                                                         *)
(* The module under src/ relies on names bound elsewhere in the package    *)
(* (sdserver.utils.dantic, codegen, first_not_none, ModelEnv, the base     *)
(* GenerationConfig, ...).  They are modelled from what their uses and     *)
(* the documentation say.  The model takes every name the module uses to   *)
(* resolve, and the settings schema to hold the keys its users read.       *)
(*                                                                         *)
(* SpecEnv explores the environment, the declarations and the              *)
(* constructions; SpecInst explores the operations on subtypes and         *)
(* instances in an environment that sets no variable; SpecHelpers explores *)
(* model_construct_env and model_validate_click under the JSON variable;   *)
(* SpecBackend explores the backend probe; SpecFrame explores every        *)
(* operation of the public interface over several subtypes; Spec is all    *)
(* of them.                                                                *)
(***************************************************************************)
EXTENDS Integers, Sequences, FiniteSets, TLC

(***************************************************************************)
(* Strings                                                                 *)
(***************************************************************************)
LowerChars == <<"a","b","c","d","e","f","g","h","i","j","k","l","m",
                "n","o","p","q","r","s","t","u","v","w","x","y","z">>

UpperChars == <<"A","B","C","D","E","F","G","H","I","J","K","L","M",
                "N","O","P","Q","R","S","T","U","V","W","X","Y","Z">>

DigitChars == {"0","1","2","3","4","5","6","7","8","9"}

UpperSet == {UpperChars[i] : i \in DOMAIN UpperChars}

LowerSet == {LowerChars[i] : i \in DOMAIN LowerChars}

IsUpperChar(c) == c \in UpperSet

IsLowerChar(c) == c \in LowerSet

ToUpperMap == [c \in LowerSet |-> UpperChars[CHOOSE i \in DOMAIN LowerChars : LowerChars[i] = c]]

ToLowerMap == [c \in UpperSet |-> LowerChars[CHOOSE i \in DOMAIN UpperChars : UpperChars[i] = c]]

\* str.upper / str.lower on one character
UpperChar(c) == IF c \in LowerSet THEN ToUpperMap[c] ELSE c

LowerChar(c) == IF c \in UpperSet THEN ToLowerMap[c] ELSE c

\* str.upper
StrUpper(s) == [i \in DOMAIN s |-> UpperChar(s[i])]

\* str.lower
StrLower(s) == [i \in DOMAIN s |-> LowerChar(s[i])]

\* str.startswith
StartsWith(s, p) == Len(p) <= Len(s) /\ SubSeq(s, 1, Len(p)) = p

\* str.endswith
EndsWith(s, p) == Len(p) <= Len(s) /\ SubSeq(s, Len(s) - Len(p) + 1, Len(s)) = p

\* s[n:]
DropPrefix(s, n) == SubSeq(s, n + 1, Len(s))

\* str.strip(c) for a single character c
StripChar(s, c) ==
    LET keep == {i \in DOMAIN s : s[i] # c}
    IN  IF keep = {} THEN << >>
        ELSE LET lo == CHOOSE i \in keep : \A j \in keep : i <= j
                 hi == CHOOSE i \in keep : \A j \in keep : j <= i
             IN  SubSeq(s, lo, hi)

\* str.replace(old, new): every non-overlapping occurrence, left to right
RECURSIVE StrReplace(_, _, _)
StrReplace(s, old, new) ==
    IF Len(s) = 0 \/ Len(old) = 0 THEN s
    ELSE IF StartsWith(s, old)
         THEN new \o StrReplace(DropPrefix(s, Len(old)), old, new)
         ELSE <<s[1]>> \o StrReplace(Tail(s), old, new)

\* sep.join(parts)
RECURSIVE StrJoin(_, _)
StrJoin(parts, sep) ==
    IF Len(parts) = 0 THEN << >>
    ELSE IF Len(parts) = 1 THEN parts[1]
         ELSE parts[1] \o sep \o StrJoin(Tail(parts), sep)

\* filter(None, parts): the non-empty strings, in order
RECURSIVE FilterNonEmpty(_)
FilterNonEmpty(parts) ==
    IF Len(parts) = 0 THEN << >>
    ELSE IF Len(parts[1]) = 0 THEN FilterNonEmpty(Tail(parts))
         ELSE <<parts[1]>> \o FilterNonEmpty(Tail(parts))

(***************************************************************************)
(* Names and values                                                        *)
(***************************************************************************)
\* Python's None
None == <<"<None>">>

S_SDSERVER == <<"S","D","S","E","R","V","E","R">>
S_US == <<"_">>
S_Config == <<"C","o","n","f","i","g">>
S_generation == <<"g","e","n","e","r","a","t","i","o","n">>

\* the names the model uses, spelled out
K_default_id == <<"d","e","f","a","u","l","t","_","i","d">>

K_model_ids == <<"m","o","d","e","l","_","i","d","s">>

K_url == <<"u","r","l">>

K_requires_gpu == <<"r","e","q","u","i","r","e","s","_","g","p","u">>

K_trust_remote_code == <<"t","r","u","s","t","_","r","e","m","o","t","e","_","c","o","d","e">>

K_service_name == <<"s","e","r","v","i","c","e","_","n","a","m","e">>

K_requirements == <<"r","e","q","u","i","r","e","m","e","n","t","s">>

K_name_type == <<"n","a","m","e","_","t","y","p","e">>

K_model_name == <<"m","o","d","e","l","_","n","a","m","e">>

K_start_name == <<"s","t","a","r","t","_","n","a","m","e">>

K_timeout == <<"t","i","m","e","o","u","t">>

K_workers_per_resource == <<"w","o","r","k","e","r","s","_","p","e","r","_","r","e","s","o","u","r","c","e">>

K_generation_class == <<"g","e","n","e","r","a","t","i","o","n","_","c","l","a","s","s">>

K_generation_config == <<"g","e","n","e","r","a","t","i","o","n","_","c","o","n","f","i","g">>

K_extras == <<"e","x","t","r","a","s">>

K_temperature == <<"t","e","m","p","e","r","a","t","u","r","e">>

K_top_k == <<"t","o","p","_","k">>

K_f1 == <<"f","1">>

K_f2 == <<"f","2">>

K_foo == <<"f","o","o">>

K_config == <<"_","_","c","o","n","f","i","g","_","_">>

K_GenerationConfig == <<"G","e","n","e","r","a","t","i","o","n","C","o","n","f","i","g">>

K_model_dump == <<"m","o","d","e","l","_","d","u","m","p">>

S_dasherize == <<"d","a","s","h","e","r","i","z","e">>

S_lowercase == <<"l","o","w","e","r","c","a","s","e">>

S_sdserver_pre == <<"_","_","s","d","s","e","r","v","e","r","_">>

S_dunder == <<"_","_">>

S_generated_ == <<"g","e","n","e","r","a","t","e","d","_">>

S_service_py == <<"_","s","e","r","v","i","c","e",".","p","y">>

N_ModelAConfig == <<"M","o","d","e","l","A","C","o","n","f","i","g">>

N_ModelA == <<"M","o","d","e","l","A">>

N_ConfigB == <<"C","o","n","f","i","g","B">>

N_model_a == <<"m","o","d","e","l","_","a">>

S_default_marker == <<"_","_","d","e","f","a","u","l","t","_","_">>

\* Python values: the ints 0, 1, 2 and 36000000, the bools, attr.NOTHING
V0 == <<"0">>

V1 == <<"1">>

V2 == <<"2">>

VTimeout == <<"36000000">>

VTrue == <<"True">>

VFalse == <<"False">>

Nothing == <<"<NOTHING>">>

\* checkpoint ids (a list of ids is a sequence of them)
V_id == <<"org/model-a">>

V_ids == <<"org/model-a", "org/model-b">>

V_http == <<"h","t","t","p">>

(***************************************************************************)
(* _field_env_key                                                          *)
(***************************************************************************)
\* A mutant of FieldEnvKey: the empty segments are not filtered out.
FieldEnvKeyNoFilter(model_name, key, suffix) ==
    StrJoin(<<StrUpper(S_SDSERVER), StrUpper(model_name),
              StrUpper(IF suffix # None /\ Len(suffix) > 0
                       THEN StripChar(suffix, "_") ELSE << >>),
              StrUpper(key)>>, S_US)

FieldEnvKey(model_name, key, suffix) ==
    StrJoin(FilterNonEmpty(
              <<StrUpper(S_SDSERVER), StrUpper(model_name),
                StrUpper(IF suffix # None /\ Len(suffix) > 0
                         THEN StripChar(suffix, "_") ELSE << >>),
                StrUpper(key)>>), S_US)

(***************************************************************************)
(* inflection.underscore and inflection.dasherize                          *)
(***************************************************************************)
\* underscore() puts "_" before the upper-case letter at i when it follows a
\* lower-case letter or a digit, or follows an upper-case letter and is
\* followed by a lower-case one.
UnderscoreBreak(s, i) ==
    /\ i >= 2
    /\ IsUpperChar(s[i])
    /\ \/ IsLowerChar(s[i-1])
       \/ s[i-1] \in DigitChars
       \/ (IsUpperChar(s[i-1]) /\ i + 1 <= Len(s) /\ IsLowerChar(s[i+1]))

RECURSIVE UnderscoreFrom(_, _)
UnderscoreFrom(s, i) ==
    IF i > Len(s) THEN << >>
    ELSE (IF UnderscoreBreak(s, i) THEN <<"_">> ELSE << >>)
         \o <<IF s[i] = "-" THEN "_" ELSE LowerChar(s[i])>>
         \o UnderscoreFrom(s, i + 1)

Underscore(s) == UnderscoreFrom(s, 1)

Dasherize(s) == [i \in DOMAIN s |-> IF s[i] = "_" THEN "-" ELSE s[i]]

(***************************************************************************)
(* Mappings (Python dicts) are functions over a finite set of keys         *)
(***************************************************************************)
EmptyMap == << >>

\* An optional argument or attribute: NoneArg is Python's None, Some(x) is x.
NoneArg == << >>

Some(x) == <<x>>

IsSome(o) == Len(o) = 1

The(o) == o[1]

\* {k: v for k, v in m.items() if k in keys}
Restrict(m, keys) == [k \in DOMAIN m \cap keys |-> m[k]]

\* {k: v for k, v in m.items() if k not in keys}
Without(m, keys) == [k \in DOMAIN m \ keys |-> m[k]]

\* config_merger.merge(base, nxt) on mappings whose values are not
\* mappings: every entry of nxt overrides the entry of base.
ConfigMerge(base, nxt) == nxt @@ base

(***************************************************************************)
(* The process environment and dantic.env_converter                        *)
(***************************************************************************)
VARIABLES
    env,      \* os.environ: variable name -> text, for the variables that are set
    classes,  \* the declared subtypes: class name -> class record
    inst,     \* the configuration instance under observation, or None
    last,     \* the last operation: its inputs and what it returned or raised
    mod,      \* the globals of import_utils, once the module is imported
    site      \* the packages installed: what find_spec and metadata see

vars == <<env, classes, inst, last, mod, site>>

\* the texts the environment variables of the model are set to
EnvTexts ==
    {<<"1">>, <<"2">>, <<"T","R","U","E">>, <<"0",".","2">>, <<"0">>, <<"o","n">>}

\* orjson.loads on the texts of the model
JsonLoads(t) ==
    CASE t = <<"1">> -> V1
      [] t = <<"2">> -> V2
      [] t = <<"t","r","u","e">> -> VTrue
      [] t = <<"0",".","2">> -> <<"0.2">>
      [] OTHER -> None

\* dantic.env_converter(value, env=name): the variable's text, lower-cased
\* and JSON-decoded, when the variable is set; the given value otherwise.
EnvConverter(value, name, e) ==
    IF name \in DOMAIN e THEN JsonLoads(StrLower(e[name])) ELSE value

(***************************************************************************)
(* ModelEnv                                                                *)
(***************************************************************************)
A_config == <<"c","o","n","f","i","g">>

A_model_id == <<"m","o","d","e","l","_","i","d">>

A_pipeline == <<"p","i","p","e","l","i","n","e">>

A_lora_weights == <<"l","o","r","a","_","w","e","i","g","h","t","s">>

A_lora_dir == <<"l","o","r","a","_","d","i","r">>

A_framework == <<"f","r","a","m","e","w","o","r","k">>

A_bettertransformer ==
    <<"b","e","t","t","e","r","t","r","a","n","s","f","o","r","m","e","r">>

\* the attributes ModelEnv.__new__ sets to the name of a variable
ModelEnvAttributes ==
    {A_config, A_model_id, A_pipeline, A_lora_weights, A_lora_dir, A_framework}

\* ModelEnv(model_name).<att>: the variable the attribute names, or the
\* AttributeError of an attribute that __new__ does not set
ModelEnvAttr(model_name, att) ==
    IF att \in ModelEnvAttributes
    THEN [ok |-> TRUE, val |-> FieldEnvKey(Underscore(model_name), StrUpper(att), None)]
    ELSE [ok |-> FALSE, err |-> "AttributeError"]

\* ModelEnv(model_name).config: the variable that holds the JSON blob
ModelEnvConfig(model_name) == ModelEnvAttr(model_name, A_config).val

ENV_VARS_TRUE_VALUES == {<<"1">>, <<"O","N">>, <<"Y","E","S">>, <<"T","R","U","E">>}

\* os.environ.get(name, default).upper()
EnvGetUpper(e, name, default) == StrUpper(IF name \in DOMAIN e THEN e[name] ELSE default)

(***************************************************************************)
(* ModelSettings, _ModelSettingsAttr.default and structure_settings        *)
(***************************************************************************)
K_use_pipeline == <<"u","s","e","_","p","i","p","e","l","i","n","e">>

K_model_type == <<"m","o","d","e","l","_","t","y","p","e">>

K_runtime == <<"r","u","n","t","i","m","e">>

K_bettertransformer == <<"b","e","t","t","e","r","t","r","a","n","s","f","o","r","m","e","r">>

K_env == <<"e","n","v">>

S_causal_lm == <<"c","a","u","s","a","l","_","l","m">>

S_transformers == <<"t","r","a","n","s","f","o","r","m","e","r","s">>

\* the keys of the settings schema
SettingsKeys ==
    {K_default_id, K_model_ids, K_url, K_requires_gpu, K_trust_remote_code,
     K_service_name, K_requirements, K_name_type, K_model_name, K_start_name,
     K_env, K_timeout, K_workers_per_resource, K_use_pipeline, K_model_type,
     K_runtime, K_bettertransformer, K_generation_class}

\* the keys a declaration has to give
RequiredKeys == {K_default_id, K_model_ids}

\* _ModelSettingsAttr.default(): a field default() does not pass is None
ModelSettingsDefault ==
    [k \in SettingsKeys |->
        CASE k = K_default_id -> S_default_marker
          [] k = K_model_ids -> <<"__default__">>
          [] k = K_name_type -> S_dasherize
          [] k = K_requires_gpu -> VFalse
          [] k = K_url -> << >>
          [] k = K_use_pipeline -> VFalse
          [] k = K_model_type -> S_causal_lm
          [] k = K_trust_remote_code -> VFalse
          [] k = K_requirements -> None
          [] k = K_timeout -> VTimeout
          [] k = K_service_name -> << >>
          [] k = K_workers_per_resource -> V1
          [] k = K_runtime -> S_transformers
          [] OTHER -> None]

\* the fields of the base GenerationConfig and their library-wide defaults
GenFields == {K_temperature, K_top_k}

GenLibDefault == (K_temperature :> <<"0.9">>) @@ (K_top_k :> <<"50">>)

\* cl_.__name__.replace("Config", "")
ClName(cname) == StrReplace(cname, S_Config, << >>)

ModelName(cl_name, name_type) ==
    IF name_type = S_dasherize THEN Underscore(cl_name) ELSE StrLower(cl_name)

StartName(model_name, name_type) ==
    IF name_type = S_dasherize THEN Dasherize(model_name) ELSE model_name

ServiceName(model_name) == S_generated_ \o model_name \o S_service_py

\* A mutant of GenDefaultCallback: the GenerationConfig block is not read.
GenDefaultCallbackNoBlock(block, field_name, field_default) == field_default

\* the default_callback of structure_settings: the value the subtype's own
\* GenerationConfig block declares for the field, else the given default
GenDefaultCallback(block, field_name, field_default) ==
    IF IsSome(block) /\ field_name \in DOMAIN The(block)
    THEN The(block)[field_name] ELSE field_default

\* _make_env_transformer: every field's default is read through the
\* environment, once, when the transformer runs
EnvTransform(defaults, model_name, suffix, e) ==
    [f \in DOMAIN defaults |->
        EnvConverter(defaults[f], FieldEnvKey(model_name, f, suffix), e)]

\* A mutant of GenerationClass: the variables carry no GENERATION segment.
GenerationClassNoSuffix(block, model_name, e) ==
    EnvTransform([f \in GenFields |-> GenDefaultCallback(block, f, GenLibDefault[f])],
                 model_name, << >>, e)

\* The defaults of the generation class structure_settings makes.
GenerationClass(block, model_name, e) ==
    EnvTransform([f \in GenFields |-> GenDefaultCallback(block, f, GenLibDefault[f])],
                 model_name, S_generation, e)

\* cls(**cl_.__config__) raises no TypeError: every key is a key of the
\* schema and the required ones are given
SettingsAccepted(cfg) ==
    /\ DOMAIN cfg \subseteq SettingsKeys
    /\ RequiredKeys \subseteq DOMAIN cfg

\* str(False)
S_False == <<"F","a","l","s","e">>

\* bool(value) of the value of a setting
Truthy(v) == v \notin {None, VFalse, V0, << >>}

\* The bettertransformer support of structure_settings (lines 267-274): the
\* error, or the entry written into the final values, if one is written.
BetterTransformer(settings_attr, model_name, e) ==
    LET var == ModelEnvAttr(model_name, A_bettertransformer)
        unset == settings_attr[K_bettertransformer] = None
    IN  IF unset /\ ~var.ok THEN [ok |-> FALSE, err |-> var.err]
        ELSE LET from_env ==
                     IF unset
                     THEN (K_bettertransformer :>
                              (IF EnvGetUpper(e, var.val, S_False) \in ENV_VARS_TRUE_VALUES
                               THEN VTrue ELSE VFalse))
                     ELSE EmptyMap
                 forced == IF Truthy(settings_attr[K_requires_gpu])
                           THEN (K_bettertransformer :> VFalse) ELSE EmptyMap
             IN  [ok |-> TRUE, final |-> forced @@ from_env]

\* structure_settings: the error it raises, or the resolved settings. The
\* settings are kept as the entries that the declaration and the derived
\* names give; SettingsOf completes them with the defaults of the schema.
StructureSettings(cname, config, block, e) ==
    IF ~IsSome(config) THEN [ok |-> FALSE, err |-> "RuntimeError"]
    ELSE IF K_generation_class \in DOMAIN The(config)
         THEN [ok |-> FALSE, err |-> "ValueError"]
    ELSE IF ~SettingsAccepted(The(config)) THEN [ok |-> FALSE, err |-> "ValueError"]
    ELSE LET settings_attr == The(config) @@ ModelSettingsDefault
             model_name == ModelName(ClName(cname), settings_attr[K_name_type])
             final == (K_model_name :> model_name)
                      @@ (K_start_name :> StartName(model_name, settings_attr[K_name_type]))
                      @@ (K_service_name :> ServiceName(model_name))
             bt == BetterTransformer(settings_attr, model_name, e)
         IN  IF ~bt.ok THEN [ok |-> FALSE, err |-> bt.err]
             ELSE [ok |-> TRUE,
                   settings |-> bt.final @@ final @@ The(config),
                   gen |-> GenerationClass(block, model_name, e)]

\* attr.evolve(_settings_attr, ...): the settings record of a subtype
SettingsOf(c) == c.settings @@ ModelSettingsDefault

(***************************************************************************)
(* SDConfig.__init_subclass__                                              *)
(***************************************************************************)
\* cls.__name__ after the naming convention is enforced
ClassName(name) == IF EndsWith(name, S_Config) THEN name ELSE name \o S_Config

\* A mutant of FieldDefaults: the environment is not read at declaration.
FieldDefaultsNoEnv(anns, model_name, e) == anns

\* the defaults _transform_attrs bakes into the fields of the subtype
FieldDefaults(anns, model_name, e) == EnvTransform(anns, model_name, << >>, e)

\* ca_names - annotated_names: the names bound to a field descriptor and
\* not annotated; the descriptors are counted in declaration order
Unannotated(unann) == {unann[i] : i \in DOMAIN unann}

\* _CountingAttr.counter of the descriptor bound to a name
Counter(unann, n) == CHOOSE i \in DOMAIN unann : unann[i] = n

RECURSIVE SortedByCounter(_, _)
\* sorted(names, key=counter)
SortedByCounter(unann, names) ==
    IF names = {} THEN << >>
    ELSE LET n == CHOOSE x \in names :
                      \A y \in names : Counter(unann, x) <= Counter(unann, y)
         IN  <<n>> \o SortedByCounter(unann, names \ {n})

\* A mutant of MissingAnnotated: only the first unannotated field is listed.
MissingAnnotatedFirstOnly(unann) ==
    SubSeq(SortedByCounter(unann, Unannotated(unann)), 1, 1)

\* the list in the message of MissingAnnotationAttributeError
MissingAnnotated(unann) == SortedByCounter(unann, Unannotated(unann))

\* A declaration: the class name, the __config__ block (or none), the nested
\* GenerationConfig block (or none), the annotated fields with their
\* declared defaults (Nothing: no default) and the fields defined by a field
\* descriptor without an annotation, in declaration order.
InitSubclass(name, config, block, anns, unann, e) ==
    LET cname == ClassName(name)
        r == StructureSettings(cname, config, block, e)
    IN  IF ~r.ok THEN r
        ELSE IF Cardinality(Unannotated(unann)) > 0
             THEN [ok |-> FALSE, err |-> "MissingAnnotationAttributeError",
                   names |-> MissingAnnotated(unann)]
        ELSE [ok |-> TRUE,
              cls |-> [name |-> cname,
                       config |-> The(config),
                       block |-> block,
                       settings |-> r.settings,
                       gen |-> r.gen,
                       fields |-> FieldDefaults(anns, r.settings[K_model_name], e),
                       accepted |-> DOMAIN anns]]

(***************************************************************************)
(* SDConfig.__init__                                                       *)
(***************************************************************************)
\* first_not_none(x, default=d)
FirstNotNone(x, d) == IF IsSome(x) THEN The(x) ELSE d

\* The effective generation-parameters input (lines 753-757): the keywords
\* that name a generation field, merged into the explicit mapping if any.
GenerationInput(c, generation_config, attrs) ==
    IF ~IsSome(generation_config)
    THEN Restrict(attrs, DOMAIN c.gen)
    ELSE ConfigMerge(The(generation_config), Restrict(attrs, DOMAIN c.gen))

\* attrs after the first deletion loop (lines 759-762)
AttrsAfterGen(attrs, gen_input) ==
    [k \in {x \in DOMAIN attrs : x \notin DOMAIN gen_input /\ attrs[x] # None}
        |-> attrs[k]]

\* self.__sdserver_extras__ after the merge (lines 764-767)
\* A mutant of ExtrasAfterInit: the unknown keywords are not merged in.
ExtrasAfterInitNoMerge(c, extras, attrs1) == FirstNotNone(extras, EmptyMap)

ExtrasAfterInit(c, extras, attrs1) ==
    ConfigMerge(FirstNotNone(extras, EmptyMap), Without(attrs1, c.accepted))

\* attrs after the second deletion loop (lines 769-772)
AttrsAfterExtras(attrs1, extras1) == Without(attrs1, DOMAIN extras1)

\* self["generation_class"](**generation_config): the generation sub-record,
\* or a TypeError for a key that is no field of the generation class
GenerationInstance(c, gen_input) == gen_input @@ c.gen

\* A mutant of AttrsInit: a field without a default is None when not given.
AttrsInitNoneDefault(c, attrs2) ==
    attrs2 @@ [f \in DOMAIN c.fields |->
                  IF c.fields[f] = Nothing THEN None ELSE c.fields[f]]

\* __attrs_init__(generation_config=..., **attrs): a field that is not given
\* takes the default baked at declaration; one that has none is required
AttrsInit(c, attrs2) == attrs2 @@ c.fields

\* SDConfig.__init__ as a whole: the instance, or the error raised, and the
\* caller's two mappings as the call leaves them
InitInstance(c, generation_config, extras, attrs) ==
    LET gen_input == GenerationInput(c, generation_config, attrs)
        attrs1 == AttrsAfterGen(attrs, gen_input)
        extras1 == ExtrasAfterInit(c, extras, attrs1)
        attrs2 == AttrsAfterExtras(attrs1, extras1)
        fields == AttrsInit(c, attrs2)
        ok == /\ DOMAIN gen_input \subseteq DOMAIN c.gen
              /\ DOMAIN attrs2 \subseteq DOMAIN c.fields
              /\ \A f \in DOMAIN fields : fields[f] # Nothing
    IN  [ok |-> ok,
         err |-> "TypeError",
         obj |-> [cls |-> c.name,
                  fields |-> fields,
                  gen |-> GenerationInstance(c, gen_input),
                  extras |-> extras1],
         gc_after |-> IF IsSome(generation_config) THEN Some(gen_input) ELSE NoneArg,
         ex_after |-> IF IsSome(extras) THEN Some(extras1) ELSE NoneArg]

(***************************************************************************)
(* Attribute access: __getitem__, __getattribute__, __setattr__            *)
(***************************************************************************)
K_hints == <<"h","i","n","t","s">>

K_accepted_keys == <<"a","c","c","e","p","t","e","d","_","k","e","y","s">>

K_model_construct_env == <<"m","o","d","e","l","_","c","o","n","s","t","r","u","c","t","_","e","n","v">>

_reserved_namespace == {K_config, K_GenerationConfig}

\* values that are objects, not scalars
ObjMethod == <<"<method>">>

ObjExtras == <<"<extras>">>

ObjGeneration == <<"<generation_config>">>

ObjOther == <<"<object>">>

\* f"__sdserver_{item}__"
InternalName(item) == S_sdserver_pre \o item \o S_dunder

\* the class attributes the assignment script sets, by internal name
SettingsAttrNames == {InternalName(k) : k \in SettingsKeys}

SettingOfName == [n \in SettingsAttrNames |-> CHOOSE k \in SettingsKeys : InternalName(k) = n]

\* the other internal attributes of a subtype and of its instances
OtherInternalNames ==
    {InternalName(K_accepted_keys), InternalName(K_hints), InternalName(K_extras)}

\* the methods of SDConfig an instance inherits (two of them)
MethodNames == {K_model_dump, K_model_construct_env}

\* hasattr(self, name)
HasAttr(c, i, name) ==
    \/ name \in SettingsAttrNames
    \/ name \in OtherInternalNames
    \/ name \in MethodNames
    \/ name \in DOMAIN i.fields
    \/ name = K_generation_config

\* getattr(self, name), for a name hasattr finds
GetAttr(c, i, name) ==
    IF name \in DOMAIN i.fields THEN i.fields[name]
    ELSE IF name = K_generation_config THEN ObjGeneration
    ELSE IF name \in SettingsAttrNames THEN SettingsOf(c)[SettingOfName[name]]
    ELSE IF name = InternalName(K_extras) THEN ObjExtras
    ELSE IF name \in MethodNames THEN ObjMethod
    ELSE ObjOther

\* A mutant of GetItem: the plain attributes are consulted last.
GetItemPlainLast(c, i, item) ==
    IF item \in _reserved_namespace
    THEN [kind |-> "ForbiddenAttributeError", val |-> None]
    ELSE IF HasAttr(c, i, InternalName(item))
         THEN [kind |-> "ok", val |-> GetAttr(c, i, InternalName(item))]
    ELSE IF item \in DOMAIN c.gen THEN [kind |-> "ok", val |-> i.gen[item]]
    ELSE IF item \in DOMAIN i.extras THEN [kind |-> "ok", val |-> i.extras[item]]
    ELSE IF HasAttr(c, i, item) THEN [kind |-> "ok", val |-> GetAttr(c, i, item)]
    ELSE [kind |-> "KeyError", val |-> None]

\* A mutant of GetItem: the extras mapping is consulted before the fields.
GetItemExtrasFirst(c, i, item) ==
    IF item \in _reserved_namespace
    THEN [kind |-> "ForbiddenAttributeError", val |-> None]
    ELSE IF item \in DOMAIN i.extras THEN [kind |-> "ok", val |-> i.extras[item]]
    ELSE IF HasAttr(c, i, InternalName(item))
         THEN [kind |-> "ok", val |-> GetAttr(c, i, InternalName(item))]
    ELSE IF HasAttr(c, i, item) THEN [kind |-> "ok", val |-> GetAttr(c, i, item)]
    ELSE IF item \in DOMAIN c.gen THEN [kind |-> "ok", val |-> i.gen[item]]
    ELSE [kind |-> "KeyError", val |-> None]

\* SDConfig.__getitem__ with a string key
GetItem(c, i, item) ==
    IF item \in _reserved_namespace
    THEN [kind |-> "ForbiddenAttributeError", val |-> None]
    ELSE IF HasAttr(c, i, InternalName(item))
         THEN [kind |-> "ok", val |-> GetAttr(c, i, InternalName(item))]
    ELSE IF HasAttr(c, i, item) THEN [kind |-> "ok", val |-> GetAttr(c, i, item)]
    ELSE IF item \in DOMAIN c.gen THEN [kind |-> "ok", val |-> i.gen[item]]
    ELSE IF item \in DOMAIN i.extras THEN [kind |-> "ok", val |-> i.extras[item]]
    ELSE [kind |-> "KeyError", val |-> None]

\* SDConfig.__getattribute__
GetAttribute(c, i, item) ==
    IF item \in _reserved_namespace
    THEN [kind |-> "ForbiddenAttributeError", val |-> None]
    ELSE IF HasAttr(c, i, item) THEN [kind |-> "ok", val |-> GetAttr(c, i, item)]
    ELSE [kind |-> "AttributeError", val |-> None]

\* A mutant of SetAttrResult: GenerationConfig is not guarded.
SetAttrResultOneName(i, attr, value) ==
    IF attr = K_config
    THEN [kind |-> "ForbiddenAttributeError", obj |-> i]
    ELSE IF attr \in DOMAIN i.fields
         THEN [kind |-> "ok", obj |-> [i EXCEPT !.fields[attr] = value]]
    ELSE [kind |-> "ok", obj |-> i]

\* SDConfig.__setattr__: the error, or the instance with the attribute set
\* (the model keeps the attributes that are fields)
SetAttrResult(i, attr, value) ==
    IF attr \in _reserved_namespace
    THEN [kind |-> "ForbiddenAttributeError", obj |-> i]
    ELSE IF attr \in DOMAIN i.fields
         THEN [kind |-> "ok", obj |-> [i EXCEPT !.fields[attr] = value]]
    ELSE [kind |-> "ok", obj |-> i]

(***************************************************************************)
(* model_dump, structure_sd_config and model_derivate                      *)
(***************************************************************************)
\* a nested mapping as a value
ObjMapping(m) == <<"<mapping>", m>>

\* bentoml_cattr.unstructure(self): the unstructure hook writes every field
\* of the instance, the generation sub-record as a nested mapping; the
\* extras mapping is no field
Unstructure(i) == (K_generation_config :> ObjMapping(i.gen)) @@ i.fields

\* A mutant of UpdateDumped: an entry of the dump is kept when the
\* generation sub-record has an entry of the same name.
UpdateDumpedKeepFields(dumped, generation_config) == dumped @@ generation_config

\* dumped.update(generation_config)
UpdateDumped(dumped, generation_config) == generation_config @@ dumped

\* SDConfig.model_dump
ModelDump(i, flatten) ==
    LET dumped == Unstructure(i)
    IN  IF flatten
        THEN LET generation_config == dumped[K_generation_config][2]
                 popped == Without(dumped, {K_generation_config})
             IN  UpdateDumped(popped, generation_config)
        ELSE dumped

\* structure_sd_config(data, cls): the accepted keys are keywords, every
\* other entry of the data is handed over as the extras mapping
StructureSdConfig(c, data) ==
    InitInstance(c, NoneArg, Some(Without(data, c.accepted)), Restrict(data, c.accepted))

S_DerivateConfig == <<"D","e","r","i","v","a","t","e","C","o","n","f","i","g">>

\* the settings-shaped overrides of model_derivate and the remaining ones
\* (lines 836-837)
NewCfg(attrs) == Restrict(attrs, SettingsKeys)

RestAttrs(attrs) == Without(attrs, SettingsKeys)

\* the __config__ of the derived subtype (line 845)
DerivedConfig(parent, attrs) == ConfigMerge(parent.config, NewCfg(attrs))

\* A mutant of ConfigAfterDerivate: the merge writes into the parent's
\* block, not into a copy of it.
ConfigAfterDerivateNoCopy(parent, attrs) == ConfigMerge(parent.config, NewCfg(attrs))

\* the parent's __config__ after model_derivate: the merge of line 844
\* writes into copy.deepcopy of it
ConfigAfterDerivate(parent, attrs) == parent.config

\* the derived subtype's default name (line 839)
DerivedName(parent) == ClName(parent.name) \o S_DerivateConfig

\* __init_subclass__ on the derived subtype: it declares no field and no
\* GenerationConfig block of its own; the fields of the parent come in by
\* the MRO and pass the environment transformer under the new model name
DeriveClass(parent, attrs, e) ==
    LET cname == ClassName(DerivedName(parent))
        r == StructureSettings(cname, Some(DerivedConfig(parent, attrs)), NoneArg, e)
    IN  IF ~r.ok THEN r
        ELSE [ok |-> TRUE,
              cls |-> [name |-> cname,
                       config |-> DerivedConfig(parent, attrs),
                       block |-> NoneArg,
                       settings |-> r.settings,
                       gen |-> r.gen,
                       fields |-> EnvTransform(parent.fields, r.settings[K_model_name],
                                               << >>, e),
                       accepted |-> {}]]

(***************************************************************************)
(* ModelEnv and model_construct_env                                        *)
(***************************************************************************)
\* the texts the blob variable is set to
T_empty_object == <<"{}">>

T_f1 == <<"{\"f1\": 2}">>

T_f1_foo == <<"{\"f1\": 2, \"foo\": 1}">>

T_generation == <<"{\"generation_config\": {\"temperature\": 2}}">>

T_number == <<"2">>

T_malformed == <<"{f1">>

T_empty_text == <<"">>

ConfigTexts ==
    {T_empty_object, T_f1, T_f1_foo, T_generation, T_number, T_malformed, T_empty_text}

\* orjson.loads on the texts of the blob: the mapping, another JSON value
\* (dict is FALSE), or JSONDecodeError (ok is FALSE)
OrjsonLoads(t) ==
    CASE t = T_empty_object -> [ok |-> TRUE, dict |-> TRUE, data |-> EmptyMap]
      [] t = T_f1 -> [ok |-> TRUE, dict |-> TRUE, data |-> (K_f1 :> V2)]
      [] t = T_f1_foo ->
            [ok |-> TRUE, dict |-> TRUE, data |-> (K_f1 :> V2) @@ (K_foo :> V1)]
      [] t = T_generation ->
            [ok |-> TRUE, dict |-> TRUE,
             data |-> (K_generation_config :> ObjMapping(K_temperature :> V2))]
      [] t = T_number -> [ok |-> TRUE, dict |-> FALSE, data |-> EmptyMap]
      [] OTHER -> [ok |-> FALSE, dict |-> FALSE, data |-> EmptyMap]

\* what a call that raised returns: the error, and the environment
\* variable its message names, if any
Raised(err, names) == [ok |-> FALSE, err |-> err, names |-> names, obj |-> NoneArg]

\* A mutant of ConfigFromEnv: the decode error is not caught.
ConfigFromEnvNoCatch(model_config, e) ==
    IF model_config \in DOMAIN e
    THEN LET r == OrjsonLoads(e[model_config])
         IN  IF r.ok THEN [ok |-> TRUE, dict |-> r.dict, data |-> r.data]
             ELSE [ok |-> FALSE, dict |-> FALSE, data |-> EmptyMap,
                   err |-> "JSONDecodeError", names |-> NoneArg]
    ELSE [ok |-> TRUE, dict |-> TRUE, data |-> EmptyMap]

\* config_from_env (lines 877-887): the decoded blob, the empty mapping
\* when the variable is unset, or the RuntimeError that names the variable
ConfigFromEnv(model_config, e) ==
    IF model_config \in DOMAIN e
    THEN LET r == OrjsonLoads(e[model_config])
         IN  IF r.ok THEN [ok |-> TRUE, dict |-> r.dict, data |-> r.data]
             ELSE [ok |-> FALSE, dict |-> FALSE, data |-> EmptyMap,
                   err |-> "RuntimeError", names |-> Some(model_config)]
    ELSE [ok |-> TRUE, dict |-> TRUE, data |-> EmptyMap]

\* the overrides after the None values are dropped (line 875); the
\* override generation_config is kept apart from the scalar ones
OverridesGiven(ov) ==
    [kw |-> [k \in {x \in DOMAIN ov.kw : ov.kw[x] # None} |-> ov.kw[k]],
     gc_kind |-> IF ov.gc_kind = "none" THEN "absent" ELSE ov.gc_kind,
     gc |-> ov.gc]

\* generation_config of lines 891-898
EnvGenerationConfig(c, given) ==
    IF given.gc_kind = "mapping" THEN given.gc
    ELSE Restrict(given.kw, DOMAIN c.gen)

\* attr.evolve(env_struct, generation_config=generation_config, **attrs):
\* the constructor is called with the changes and, for every other field,
\* the value env_struct holds
Evolve(c, i, generation_config, attrs) ==
    InitInstance(c, Some(generation_config), NoneArg, attrs @@ i.fields)

\* SDConfig.model_construct_env(**overrides), in the environment e
ModelConstructEnv(c, ov, e) ==
    LET given == OverridesGiven(ov)
        cfg == ConfigFromEnv(ModelEnvConfig(SettingsOf(c)[K_model_name]), e)
    IN  IF ~cfg.ok THEN Raised(cfg.err, cfg.names)
        ELSE IF ~cfg.dict THEN Raised("RuntimeError", NoneArg)
        ELSE LET env_struct == StructureSdConfig(c, cfg.data)
             IN  IF ~env_struct.ok THEN Raised(env_struct.err, NoneArg)
                 ELSE IF given.gc_kind = "scalar" THEN Raised("RuntimeError", NoneArg)
                 ELSE LET generation_config == EnvGenerationConfig(c, given)
                          attrs == Without(given.kw, DOMAIN generation_config)
                          r == Evolve(c, env_struct.obj, generation_config, attrs)
                      IN  IF r.ok
                          THEN [ok |-> TRUE, err |-> "", names |-> NoneArg,
                                obj |-> Some(r.obj)]
                          ELSE Raised(r.err, NoneArg)

(***************************************************************************)
(* model_validate_click                                                    *)
(***************************************************************************)
\* A mutant of ClickPartition: the prefix of the fields is tried first.
ClickPartitionFieldsFirst(model_name, attrs) ==
    LET p == model_name \o S_US
        field_keys == {k \in DOMAIN attrs : StartsWith(k, p)}
    IN  [gen |-> EmptyMap,
         fields |-> [r \in {DropPrefix(k, Len(p)) : k \in field_keys} |-> attrs[p \o r]],
         leftover |-> Without(attrs, field_keys)]

\* the loop of lines 908-917 and the leftover of line 919
ClickPartition(model_name, attrs) ==
    LET pg == model_name \o S_US \o S_generation \o S_US
        p == model_name \o S_US
        gen_keys == {k \in DOMAIN attrs : StartsWith(k, pg)}
        field_keys == {k \in DOMAIN attrs \ gen_keys : StartsWith(k, p)}
    IN  [gen |-> [r \in {DropPrefix(k, Len(pg)) : k \in gen_keys} |-> attrs[pg \o r]],
         fields |-> [r \in {DropPrefix(k, Len(p)) : k \in field_keys} |-> attrs[p \o r]],
         leftover |-> Without(attrs, gen_keys \cup field_keys)]

\* self.model_validate_click(**attrs): the partition, and what
\* model_construct_env makes of it
ModelValidateClick(c, i, attrs, e) ==
    LET part == ClickPartition(GetItem(c, i, K_model_name).val, attrs)
    IN  [part |-> part,
         res |-> ModelConstructEnv(c, [kw |-> part.fields, gc_kind |-> "mapping",
                                       gc |-> part.gen], e)]

(***************************************************************************)
(* import_utils: the backend probe and require_backends                    *)
(***************************************************************************)
E_USE_TF == <<"U","S","E","_","T","F">>

E_USE_TORCH == <<"U","S","E","_","T","O","R","C","H">>

S_AUTO == <<"A","U","T","O">>

ENV_VARS_TRUE_AND_AUTO_VALUES == ENV_VARS_TRUE_VALUES \cup {S_AUTO}

\* the globals the import of the module binds (lines 47-48, 64-65): the
\* flags, and whether find_spec locates torch and tensorflow
ImportGlobals(e, st) ==
    [USE_TF |-> EnvGetUpper(e, E_USE_TF, S_AUTO),
     USE_TORCH |-> EnvGetUpper(e, E_USE_TORCH, S_AUTO),
     torch_available |-> st.torch_spec,
     tf_available |-> st.tf_spec]

\* is_torch_available(): the value returned and the globals afterwards
IsTorchAvailable(m, st) ==
    LET val == IF m.USE_TORCH \in ENV_VARS_TRUE_AND_AUTO_VALUES
                  /\ m.USE_TF \notin ENV_VARS_TRUE_VALUES
               THEN m.torch_available /\ st.torch_meta
               ELSE FALSE
    IN  [val |-> val, mod |-> [m EXCEPT !.torch_available = val]]

\* BACKENDS_MAPPING: the probe is is_torch_available for its one entry
BACKENDS_MAPPING == [b \in {"torch"} |-> "PYTORCH_IMPORT_ERROR"]

\* failed = [msg.format(name) for available, msg in checks if not
\* available()]: the lookup of a backend that is not registered raises
RECURSIVE FailedChecks(_, _, _, _)
FailedChecks(m, st, backends, failed) ==
    IF Len(backends) = 0
    THEN [kind |-> IF Len(failed) = 0 THEN "ok" ELSE "ImportError",
          msg |-> failed, mod |-> m]
    ELSE IF Head(backends) \notin DOMAIN BACKENDS_MAPPING
         THEN [kind |-> "KeyError", msg |-> << >>, mod |-> m]
    ELSE LET r == IsTorchAvailable(m, st)
         IN  FailedChecks(r.mod, st, Tail(backends),
                          IF r.val THEN failed
                          ELSE Append(failed, BACKENDS_MAPPING[Head(backends)]))

\* require_backends(o, backends), backends a list
RequireBackends(m, st, backends) ==
    LET r == IsTorchAvailable(m, st)
    IN  IF (\E j \in DOMAIN backends : backends[j] = "torch") /\ ~r.val
        THEN [kind |-> "ImportError", msg |-> <<"PYTORCH_IMPORT_ERROR_WITH_TF">>,
              mod |-> r.mod]
        ELSE FailedChecks(IF \E j \in DOMAIN backends : backends[j] = "torch"
                          THEN r.mod ELSE m,
                          st, backends, << >>)

(***************************************************************************)
(* The inputs of the model                                                 *)
(***************************************************************************)
\* the environment variables the model sets and unsets
EnvVars ==
    {FieldEnvKey(N_model_a, K_f1, << >>),
     FieldEnvKey(N_model_a, K_f2, << >>),
     FieldEnvKey(N_model_a, K_temperature, << >>),
     FieldEnvKey(N_model_a, K_temperature, S_generation),
     FieldEnvKey(N_model_a, A_bettertransformer, << >>)}

\* a settings block that leaves the bettertransformer flag unset
ConfigUnset == (K_default_id :> V_id) @@ (K_model_ids :> V_ids) @@ (K_url :> V_http)

ConfigFull == (K_bettertransformer :> VFalse) @@ ConfigUnset

ConfigInputs ==
    {NoneArg,
     Some(ConfigFull),
     Some(ConfigUnset),
     Some((K_requires_gpu :> VTrue) @@ (K_bettertransformer :> VTrue) @@ ConfigUnset),
     Some((K_name_type :> S_lowercase) @@ ConfigFull),
     Some(K_model_ids :> V_ids),
     Some(K_default_id :> V_id),
     Some((K_default_id :> << >>) @@ (K_model_ids :> << >>)
          @@ (K_bettertransformer :> VFalse)),
     Some((K_generation_class :> None) @@ ConfigFull)}

BlockInputs == {NoneArg, Some(K_temperature :> V2)}

AnnsInputs ==
    {(K_f1 :> V0),
     (K_f1 :> V0) @@ (K_url :> V0),
     (K_f1 :> V0) @@ (K_f2 :> Nothing),
     (K_f1 :> V0) @@ (K_temperature :> V0)}

ClassNameInputs == {N_ModelAConfig, N_ModelA, N_ConfigB}

\* the plain declaration, and the declarations tried: those that differ
\* from the plain one in one part
DeclPlain ==
    [name |-> N_ModelAConfig, config |-> Some(ConfigFull), block |-> NoneArg,
     anns |-> (K_f1 :> V0), unann |-> << >>]

UnannInputs == {<< >>, <<K_f2>>, <<K_foo, K_f2>>}

\* a declaration with no settings block and a field without annotation
DeclTwoFaults == [DeclPlain EXCEPT !.config = NoneArg, !.unann = <<K_foo, K_f2>>]

DeclInputs ==
    {d \in [name : ClassNameInputs, config : ConfigInputs, block : BlockInputs,
            anns : AnnsInputs, unann : UnannInputs] :
        Cardinality({p \in DOMAIN d : d[p] # DeclPlain[p]}) <= 1}
    \cup {DeclTwoFaults}

\* the texts each variable is set to, and how many variables are set at once
MaxEnvSet == 1

\* how many subtypes a process declares or derives
MaxClasses == 2

EnvTextsOf ==
    (FieldEnvKey(N_model_a, K_f1, << >>) :> {<<"1">>, <<"2">>})
    @@ (FieldEnvKey(N_model_a, K_f2, << >>) :> {<<"1">>})
    @@ (FieldEnvKey(N_model_a, K_temperature, << >>) :> {<<"0",".","2">>})
    @@ (FieldEnvKey(N_model_a, K_temperature, S_generation) :>
            {<<"T","R","U","E">>, <<"0",".","2">>})
    @@ (FieldEnvKey(N_model_a, A_bettertransformer, << >>) :> {<<"1">>})
    @@ (ModelEnvConfig(N_model_a) :> ConfigTexts)
    @@ (E_USE_TORCH :> {<<"0">>, <<"o","n">>})
    @@ (E_USE_TF :> {<<"o","n">>})

(***************************************************************************)
(* Actions                                                                 *)
(***************************************************************************)
Init ==
    /\ env = EmptyMap
    /\ classes = EmptyMap
    /\ inst = NoneArg
    /\ last = [op |-> "init"]
    /\ mod = NoneArg
    /\ site = [torch_spec |-> FALSE, torch_meta |-> FALSE, tf_spec |-> FALSE]

\* os.environ[name] = text, by the process owner
SetEnv(name, text) ==
    /\ inst = NoneArg
    /\ text \in EnvTextsOf[name]
    /\ Cardinality(DOMAIN env \cup {name}) <= MaxEnvSet
    /\ env' = (name :> text) @@ env
    /\ last' = [op |-> "setenv"]
    /\ UNCHANGED <<classes, inst>>
    /\ UNCHANGED <<mod, site>>

\* del os.environ[name]
UnsetEnv(name) ==
    /\ inst = NoneArg
    /\ name \in DOMAIN env
    /\ env' = Without(env, {name})
    /\ last' = [op |-> "unsetenv"]
    /\ UNCHANGED <<classes, inst>>
    /\ UNCHANGED <<mod, site>>

\* class <name>(SDConfig): ...
Declare(d) ==
    /\ DOMAIN classes = {}
    /\ LET r == InitSubclass(d.name, d.config, d.block, d.anns, d.unann, env)
       IN  /\ classes' = IF r.ok THEN (r.cls.name :> r.cls) @@ classes ELSE classes
           /\ last' = [op |-> "declare", name |-> d.name, config |-> d.config,
                       block |-> d.block, anns |-> d.anns, unann |-> d.unann,
                       names |-> IF "names" \in DOMAIN r THEN r.names ELSE << >>,
                       kind |-> IF r.ok THEN "ok" ELSE r.err]
    /\ UNCHANGED <<env, inst>>
    /\ UNCHANGED <<mod, site>>

\* class <name>(SDConfig): ... after another subtype has been declared
DeclareOther(d) ==
    /\ DOMAIN classes # {}
    /\ Cardinality(DOMAIN classes) < MaxClasses
    /\ ClassName(d.name) \notin DOMAIN classes
    /\ inst = NoneArg
    /\ LET r == InitSubclass(d.name, d.config, d.block, d.anns, d.unann, env)
       IN  /\ classes' = IF r.ok THEN (r.cls.name :> r.cls) @@ classes ELSE classes
           /\ last' = [op |-> "declare", name |-> d.name, config |-> d.config,
                       block |-> d.block, anns |-> d.anns, unann |-> d.unann,
                       names |-> IF "names" \in DOMAIN r THEN r.names ELSE << >>,
                       kind |-> IF r.ok THEN "ok" ELSE r.err]
    /\ UNCHANGED <<env, inst>>
    /\ UNCHANGED <<mod, site>>

\* a call of _field_env_key
EnvKeyInputs ==
    [m : {N_model_a, <<"b">>}, k : {K_f1, K_temperature},
     s : {None, << >>, S_generation, <<"_">> \o S_generation \o <<"_">>, <<"_">>}]

CallFieldEnvKey(a) ==
    /\ DOMAIN classes = {}
    /\ last' = [op |-> "field_env_key", args |-> a, val |-> FieldEnvKey(a.m, a.k, a.s)]
    /\ UNCHANGED <<env, classes, inst>>
    /\ UNCHANGED <<mod, site>>

\* The arguments of a construction: keywords, an explicit generation
\* mapping or none, a caller-supplied extras mapping or none.
MaxArgs == 2

KwKeys == {K_f1, K_url, K_temperature, K_foo}

KwValues == {V1, None}

KwInputs ==
    UNION {[S -> KwValues] : S \in {T \in SUBSET KwKeys : Cardinality(T) <= MaxArgs}}

GcInputs == {NoneArg, Some(K_temperature :> V2)}

ExInputs == {NoneArg, Some((K_f1 :> V2) @@ (K_url :> V2) @@ (K_foo :> V2))}

ArgCount(a) ==
    Cardinality(DOMAIN a.kw) + (IF IsSome(a.gc) THEN 1 ELSE 0)
                             + (IF IsSome(a.ex) THEN 1 ELSE 0)

ConstructInputs ==
    {a \in [kw : KwInputs, gc : GcInputs, ex : ExInputs] : ArgCount(a) <= MaxArgs}

\* the constructions tried where the environment varies: at most one
\* keyword, no mapping
EnvConstructInputs ==
    {a \in ConstructInputs :
        a.gc = NoneArg /\ a.ex = NoneArg /\ Cardinality(DOMAIN a.kw) <= 1}

\* <cls>(generation_config=gc, __sdserver_extras__=ex, **kw); one instance
\* is observed, and a construction that raised is not tried again at once
Construct(n, a) ==
    /\ n \in DOMAIN classes
    /\ inst = NoneArg
    /\ last.op # "construct"
    /\ LET r == InitInstance(classes[n], a.gc, a.ex, a.kw)
       IN  /\ inst' = IF r.ok THEN Some(r.obj) ELSE inst
           /\ last' = [op |-> "construct", cls |-> n, args |-> a,
                       kind |-> IF r.ok THEN "ok" ELSE r.err,
                       gc_after |-> r.gc_after, ex_after |-> r.ex_after]
    /\ UNCHANGED <<env, classes>>
    /\ UNCHANGED <<mod, site>>

\* the keys and names the instance is asked for
LookupKeys == {K_f1, K_url, K_temperature, K_foo} \cup _reserved_namespace

AttrNames == {K_f1} \cup _reserved_namespace

\* The operations that read an instance and change nothing: one taken
\* right after another reaches no state that is not reached without it.
Observations ==
    {"getitem", "getattr", "structure_dump", "model_validate_click", "model_dump"}

\* instance[key]
Index(key) ==
    /\ IsSome(inst)
    /\ last.op \notin Observations
    /\ LET i == The(inst)
           r == GetItem(classes[i.cls], i, key)
       IN  last' = [op |-> "getitem", key |-> key, kind |-> r.kind, val |-> r.val]
    /\ UNCHANGED <<env, classes, inst>>
    /\ UNCHANGED <<mod, site>>

\* instance.<name>
ReadAttr(name) ==
    /\ IsSome(inst)
    /\ last.op \notin Observations
    /\ LET i == The(inst)
           r == GetAttribute(classes[i.cls], i, name)
       IN  last' = [op |-> "getattr", key |-> name, kind |-> r.kind, val |-> r.val]
    /\ UNCHANGED <<env, classes, inst>>
    /\ UNCHANGED <<mod, site>>

\* instance.<name> = value
WriteAttr(name, value) ==
    /\ IsSome(inst)
    /\ LET r == SetAttrResult(The(inst), name, value)
       IN  /\ inst' = Some(r.obj)
           /\ last' = [op |-> "setattr", key |-> name, kind |-> r.kind,
                       before |-> The(inst)]
    /\ UNCHANGED <<env, classes>>
    /\ UNCHANGED <<mod, site>>

\* instance.model_dump(flatten=flatten)
CallModelDump(flatten) ==
    /\ IsSome(inst)
    /\ last.op \notin Observations
    /\ last' = [op |-> "model_dump", flatten |-> flatten,
                res |-> ModelDump(The(inst), flatten)]
    /\ UNCHANGED <<env, classes, inst>>
    /\ UNCHANGED <<mod, site>>

\* converter.structure(instance.model_dump(), type(instance))
StructureDump ==
    /\ IsSome(inst)
    /\ last.op \notin Observations
    /\ LET i == The(inst)
           r == StructureSdConfig(classes[i.cls], ModelDump(i, FALSE))
       IN  last' = [op |-> "structure_dump", src |-> i,
                    kind |-> IF r.ok THEN "ok" ELSE r.err, obj |-> r.obj]
    /\ UNCHANGED <<env, classes, inst>>
    /\ UNCHANGED <<mod, site>>

\* the overrides model_construct_env is called with
EnvOverrideInputs ==
    {ov \in [kw : KwInputs,
              gc_kind : {"absent", "none", "mapping", "scalar"},
              gc : {EmptyMap, (K_temperature :> V2)}] :
        /\ ov.gc_kind # "mapping" => ov.gc = EmptyMap
        /\ ov.gc_kind = "mapping" => ov.gc # EmptyMap
        /\ Cardinality(DOMAIN ov.kw) + (IF ov.gc_kind = "absent" THEN 0 ELSE 1) <= MaxArgs}

\* <cls>.model_construct_env(generation_config=gc, **kw); the instance it
\* returns is the one observed
CallModelConstructEnv(n, ov) ==
    /\ n \in DOMAIN classes
    /\ inst = NoneArg
    /\ last.op # "model_construct_env"
    /\ LET r == ModelConstructEnv(classes[n], ov, env)
       IN  /\ inst' = IF r.ok THEN r.obj ELSE inst
           /\ last' = [op |-> "model_construct_env", cls |-> n, args |-> ov,
                       kind |-> IF r.ok THEN "ok" ELSE r.err, res |-> r]
    /\ UNCHANGED <<env, classes>>
    /\ UNCHANGED <<mod, site>>

\* the flags a command line hands over
CK_generation_temperature == N_model_a \o S_US \o S_generation \o S_US \o K_temperature

CK_f1 == N_model_a \o S_US \o K_f1

CK_generation == N_model_a \o S_US \o S_generation

CK_modela_f1 == <<"m","o","d","e","l","a">> \o S_US \o K_f1

CK_port == <<"p","o","r","t">>

ClickKeys == {CK_generation_temperature, CK_f1, CK_generation, CK_modela_f1, CK_port}

\* no flag, one flag, every flag, and flags left unset (None)
ClickInputs ==
    {[k \in S |-> V1] : S \in {T \in SUBSET ClickKeys : Cardinality(T) <= 1}}
    \cup {[k \in ClickKeys |-> IF k = CK_port THEN V2 ELSE V1],
          (CK_f1 :> None) @@ (CK_generation_temperature :> None) @@ (CK_port :> None)}

\* instance.model_validate_click(**attrs)
CallModelValidateClick(attrs) ==
    /\ IsSome(inst)
    /\ last.op \notin Observations
    /\ LET i == The(inst)
           r == ModelValidateClick(classes[i.cls], i, attrs, env)
       IN  last' = [op |-> "model_validate_click", cls |-> i.cls, args |-> attrs,
                    part |-> r.part,
                    kind |-> IF r.res.ok THEN "ok" ELSE r.res.err, res |-> r.res]
    /\ UNCHANGED <<env, classes, inst>>
    /\ UNCHANGED <<mod, site>>

\* the overrides model_derivate is called with
DerivateInputs ==
    {EmptyMap, (K_url :> V0), (K_f1 :> V1), (K_foo :> V1), (K_url :> V0) @@ (K_f1 :> V1)}

\* <cls>.model_derivate(**attrs), with the default name
ModelDerivate(n, attrs) ==
    /\ n \in DOMAIN classes
    /\ Cardinality(DOMAIN classes) < MaxClasses
    /\ ClassName(DerivedName(classes[n])) \notin DOMAIN classes
    /\ inst = NoneArg
    /\ LET d == DeriveClass(classes[n], attrs, env)
           r == InitInstance(d.cls, NoneArg, NoneArg, RestAttrs(attrs))
           parents == [classes EXCEPT ![n].config = ConfigAfterDerivate(classes[n], attrs)]
       IN  /\ classes' = IF d.ok THEN (d.cls.name :> d.cls) @@ parents ELSE parents
           /\ inst' = IF d.ok /\ r.ok THEN Some(r.obj) ELSE inst
           /\ last' = [op |-> "model_derivate", cls |-> n, attrs |-> attrs,
                       kind |-> IF ~d.ok THEN d.err ELSE IF r.ok THEN "ok" ELSE r.err]
    /\ UNCHANGED env
    /\ UNCHANGED <<mod, site>>

\* The environment and the declarations: what a subtype and its instances
\* take from os.environ.
NextEnv ==
    \/ \E n \in EnvVars, t \in EnvTexts : SetEnv(n, t)
    \/ \E n \in EnvVars : UnsetEnv(n)
    \/ \E d \in DeclInputs : Declare(d)
    \/ \E a \in EnvKeyInputs : CallFieldEnvKey(a)
    \/ \E n \in DOMAIN classes, a \in EnvConstructInputs : Construct(n, a)

SpecEnv == Init /\ [][NextEnv]_vars

\* The operations on subtypes and instances, in a process whose environment
\* sets none of the variables.
NextInst ==
    \/ \E d \in DeclInputs : Declare(d)
    \/ \E n \in DOMAIN classes, a \in ConstructInputs : Construct(n, a)
    \/ \E k \in LookupKeys : Index(k)
    \/ \E k \in AttrNames : ReadAttr(k)
    \/ \E k \in AttrNames : WriteAttr(k, V2)
    \/ StructureDump
    \/ \E flatten \in BOOLEAN : CallModelDump(flatten)
    \/ \E n \in DOMAIN classes, a \in DerivateInputs : ModelDerivate(n, a)

SpecInst == Init /\ [][NextInst]_vars

\* the packages installed
SiteInputs == [torch_spec : BOOLEAN, torch_meta : BOOLEAN, tf_spec : BOOLEAN]

\* packages are installed or removed, by the process owner
SetSite(st) ==
    /\ st # site
    /\ site' = st
    /\ last' = [op |-> "site"]
    /\ UNCHANGED <<env, classes, inst, mod>>

\* import onediffusion.utils.import_utils, once in a process
ImportUtils ==
    /\ mod = NoneArg
    /\ mod' = Some(ImportGlobals(env, site))
    /\ last' = [op |-> "import"]
    /\ UNCHANGED <<env, classes, inst, site>>

\* is_torch_available()
CallIsTorchAvailable ==
    /\ IsSome(mod)
    /\ LET r == IsTorchAvailable(The(mod), site)
       IN  /\ mod' = Some(r.mod)
           /\ last' = [op |-> "is_torch_available", val |-> r.val]
    /\ UNCHANGED <<env, classes, inst, site>>

\* the backends require_backends is asked for
BackendInputs == {<< >>, <<"torch">>, <<"flax">>, <<"torch", "flax">>}

\* require_backends(o, backends)
CallRequireBackends(backends) ==
    /\ IsSome(mod)
    /\ LET r == RequireBackends(The(mod), site, backends)
       IN  /\ mod' = Some(r.mod)
           /\ last' = [op |-> "require_backends", backends |-> backends,
                       kind |-> r.kind, msg |-> r.msg]
    /\ UNCHANGED <<env, classes, inst, site>>

\* The backend probe, in a process whose owner sets the selection flags
\* and installs or removes packages.
NextBackend ==
    \/ \E n \in {E_USE_TORCH, E_USE_TF}, t \in EnvTexts : SetEnv(n, t)
    \/ \E n \in {E_USE_TORCH, E_USE_TF} : UnsetEnv(n)
    \/ \E st \in SiteInputs : SetSite(st)
    \/ ImportUtils
    \/ CallIsTorchAvailable
    \/ \E b \in BackendInputs : CallRequireBackends(b)

SpecBackend == Init /\ [][NextBackend]_vars

\* The public interface on declared subtypes, in a process whose
\* environment sets none of the variables.
NextFrame ==
    \/ \E d \in DeclInputs : Declare(d)
    \/ \E d \in DeclInputs : DeclareOther(d)
    \/ \E n \in DOMAIN classes, a \in EnvConstructInputs : Construct(n, a)
    \/ \E k \in LookupKeys : Index(k)
    \/ StructureDump
    \/ \E n \in DOMAIN classes, ov \in EnvOverrideInputs : CallModelConstructEnv(n, ov)
    \/ \E a \in ClickInputs : CallModelValidateClick(a)
    \/ \E n \in DOMAIN classes, a \in DerivateInputs : ModelDerivate(n, a)

SpecFrame == Init /\ [][NextFrame]_vars

\* The helpers that build an instance from the environment and from a
\* command line; the blob variable is the one the environment sets.
NextHelpers ==
    \/ \E t \in ConfigTexts : SetEnv(ModelEnvConfig(N_model_a), t)
    \/ UnsetEnv(ModelEnvConfig(N_model_a))
    \/ \E d \in DeclInputs : Declare(d)
    \/ \E n \in DOMAIN classes, ov \in EnvOverrideInputs : CallModelConstructEnv(n, ov)
    \/ \E a \in ClickInputs : CallModelValidateClick(a)

SpecHelpers == Init /\ [][NextHelpers]_vars

\* Every operation.
Next == NextEnv \/ NextInst \/ NextHelpers \/ NextBackend \/ NextFrame

Spec == Init /\ [][Next]_vars

(***************************************************************************)
(* The properties                                                          *)
(***************************************************************************)
\* the instance under observation and its class
Cur == The(inst)

CurCls == classes[Cur.cls]

\* the keys k for which an instance has the attribute __sdserver_<k>__: the
\* settings, and the three bookkeeping attributes
InternalKeys == SettingsKeys \cup {K_accepted_keys, K_hints, K_extras}

\* C1: instance[key], key a string that is not reserved, returns the first
\* hit of (a) the internal attribute __sdserver_<key>__, (b) the plain
\* attribute, (c) the generation sub-record, (d) the extras mapping, and
\* raises KeyError when the key is in none of the four.
C1_LookupOrder ==
    (last.op = "getitem" /\ last.key \notin {K_config, K_GenerationConfig}) =>
        LET k == last.key
        IN  IF k \in InternalKeys
            THEN /\ last.kind = "ok"
                 /\ k \in SettingsKeys => last.val = SettingsOf(CurCls)[k]
            ELSE IF k \in DOMAIN Cur.fields
            THEN last.kind = "ok" /\ last.val = Cur.fields[k]
            ELSE IF k \in {K_generation_config, K_model_dump, K_model_construct_env}
            THEN last.kind = "ok"
            ELSE IF k \in DOMAIN Cur.gen
            THEN last.kind = "ok" /\ last.val = Cur.gen[k]
            ELSE IF k \in DOMAIN Cur.extras
            THEN last.kind = "ok" /\ last.val = Cur.extras[k]
            ELSE last.kind = "KeyError"

\* a lookup of a key that two stores hold with different values
C1_Witness ==
    /\ last.op = "getitem" /\ last.key = K_f1
    /\ K_f1 \in DOMAIN Cur.fields /\ K_f1 \in DOMAIN Cur.extras
    /\ Cur.fields[K_f1] # Cur.extras[K_f1]
    /\ last.val = Cur.fields[K_f1]

\* C2 (as stated): when a key is both a declared field and an entry of the
\* extras mapping, instance[key] returns the value of the declared field.
C2_FieldBeforeExtras ==
    (/\ last.op = "getitem"
     /\ last.key \in DOMAIN Cur.fields
     /\ last.key \in DOMAIN Cur.extras) =>
        (last.kind = "ok" /\ last.val = Cur.fields[last.key])

\* C2 (amended): when a key is both a declared field and an entry of the
\* extras mapping, instance[key] returns the value of the declared field,
\* unless the key is also a settings key: then the setting is returned. The
\* entry of the extras mapping is never what the lookup reads.
C2_FieldBeforeExtrasUnlessSetting ==
    (/\ last.op = "getitem"
     /\ last.key \in DOMAIN Cur.fields
     /\ last.key \in DOMAIN Cur.extras) =>
        /\ last.kind = "ok"
        /\ last.val = IF last.key \in SettingsKeys
                      THEN SettingsOf(CurCls)[last.key]
                      ELSE Cur.fields[last.key]

\* a declared field that is a settings key too, held by the extras as well
C2_Witness ==
    /\ last.op = "getitem" /\ last.key = K_url
    /\ K_url \in DOMAIN Cur.fields /\ K_url \in DOMAIN Cur.extras
    /\ last.val = V_http
    /\ Cur.fields[K_url] # V_http /\ Cur.extras[K_url] # V_http

\* C3: for a reserved name, setting the attribute raises
\* ForbiddenAttributeError and leaves the instance as it was, and reading
\* it, by attribute access or by index lookup, raises it as well.
C3_ReservedNames ==
    /\ (last.op = "setattr" /\ last.key \in {K_config, K_GenerationConfig}) =>
            (last.kind = "ForbiddenAttributeError" /\ Cur = last.before)
    /\ (last.op \in {"getattr", "getitem"}
            /\ last.key \in {K_config, K_GenerationConfig}) =>
            last.kind = "ForbiddenAttributeError"

\* an attempt to set GenerationConfig on an instance has been refused
C3_Witness ==
    /\ last.op = "setattr" /\ last.key = K_GenerationConfig
    /\ last.kind = "ForbiddenAttributeError"
    /\ Cur = last.before

\* the keywords of the last construction that name neither a declared
\* field of the class nor a generation field
UnknownKw ==
    {k \in DOMAIN last.args.kw :
        k \notin classes[last.cls].accepted /\ k \notin DOMAIN classes[last.cls].gen}

C5_RoundTrip ==
    last.op = "structure_dump" =>
        /\ last.kind = "ok"
        /\ last.obj.fields = last.src.fields
        /\ last.obj.gen = last.src.gen

\* the round trip of an instance whose temperature is not the default: the
\* result has the default, and the dumped sub-record sits in its extras
C5_Witness ==
    /\ last.op = "structure_dump" /\ last.kind = "ok"
    /\ last.src.gen[K_temperature] = V1
    /\ last.obj.gen[K_temperature] = CurCls.gen[K_temperature]
    /\ last.obj.gen[K_temperature] # V1
    /\ last.obj.extras[K_generation_config] = ObjMapping(last.src.gen)

\* the subtype model_derivate made in the last step
Derived == classes[ClassName(DerivedName(classes[last.cls]))]

\* C6 (as stated): model_derivate without overrides gives a subtype whose
\* settings block equals the parent's; with settings-shaped overrides the
\* block is the parent's with every override written over it; the other
\* overrides are the field values of the instance built.
C6_Derivate ==
    (last.op = "model_derivate" /\ last.kind = "ok") =>
        /\ last.attrs = EmptyMap => Derived.config = classes[last.cls].config
        /\ \A k \in DOMAIN Derived.config :
              Derived.config[k] = IF k \in DOMAIN last.attrs THEN last.attrs[k]
                                  ELSE classes[last.cls].config[k]
        /\ DOMAIN Derived.config =
              DOMAIN classes[last.cls].config \cup (DOMAIN last.attrs \cap SettingsKeys)
        /\ \A k \in DOMAIN last.attrs \cap DOMAIN Cur.fields :
              k \notin SettingsKeys => Cur.fields[k] = last.attrs[k]

\* model_derivate(f1=1): the instance keeps the default of f1, and the
\* override is an entry of its extras
C6_Witness ==
    /\ last.op = "model_derivate" /\ last.kind = "ok"
    /\ K_f1 \in DOMAIN last.attrs /\ last.attrs[K_f1] = V1
    /\ Cur.fields[K_f1] = V0
    /\ Cur.extras[K_f1] = V1

\* the suffix segment of the key, for the suffixes the model passes
SuffixSegment(sfx) ==
    IF sfx \in {S_generation, <<"_">> \o S_generation \o <<"_">>} THEN S_generation
    ELSE << >>

\* C7: _field_env_key(m, k, s) is the upper-cased SDSERVER_<m>[_<s>]_<k>:
\* the suffix segment is left out when the suffix is empty or absent, and
\* one underscore stands between adjacent segments.
C7_EnvKeyFormat ==
    /\ FieldEnvKey(N_model_a, K_temperature, S_generation) =
          <<"S","D","S","E","R","V","E","R","_","M","O","D","E","L","_","A","_","G","E","N","E","R","A","T","I","O","N","_","T","E","M","P","E","R","A","T","U","R","E">>
    /\ FieldEnvKey(N_model_a, K_f1, None) = <<"S","D","S","E","R","V","E","R","_","M","O","D","E","L","_","A","_","F","1">>
    /\ last.op = "field_env_key" =>
          last.val =
            IF SuffixSegment(last.args.s) = << >>
            THEN StrUpper(S_SDSERVER \o S_US \o last.args.m \o S_US \o last.args.k)
            ELSE StrUpper(S_SDSERVER \o S_US \o last.args.m \o S_US
                          \o SuffixSegment(last.args.s) \o S_US \o last.args.k)

\* a key derived with a suffix that carries underscores of its own
C7_Witness ==
    /\ last.op = "field_env_key"
    /\ last.args.s = <<"_">> \o S_generation \o <<"_">>
    /\ last.args.m = N_model_a /\ last.args.k = K_temperature
    /\ last.val = <<"S","D","S","E","R","V","E","R","_","M","O","D","E","L","_","A","_","G","E","N","E","R","A","T","I","O","N","_","T","E","M","P","E","R","A","T","U","R","E">>

\* the class the last declaration made, and the name_type it asked for
Declared == classes[ClassName(last.name)]

DeclaredNameType ==
    IF K_name_type \in DOMAIN The(last.config) THEN The(last.config)[K_name_type]
    ELSE S_dasherize

\* the class name without its last six characters, the suffix 'Config'
WithoutConfigSuffix(cname) == SubSeq(cname, 1, Len(cname) - Len(S_Config))

\* C8 (as stated): a subtype declared with valid settings takes its names
\* from the class name without the suffix 'Config': with 'dasherize' the
\* model_name is the underscored name and the start_name its dasherized
\* form (ModelAConfig: model_a, model-a), with 'lowercase' both are the
\* lower-cased name; service_name is generated_<model_name>_service.py.
C8_DerivedNames ==
    (last.op = "declare" /\ last.kind = "ok") =>
        LET base == WithoutConfigSuffix(ClassName(last.name))
            st == SettingsOf(Declared)
        IN  /\ st[K_model_name] = IF DeclaredNameType = S_dasherize
                                   THEN Underscore(base) ELSE StrLower(base)
            /\ st[K_start_name] = IF DeclaredNameType = S_dasherize
                                   THEN Dasherize(st[K_model_name])
                                   ELSE st[K_model_name]
            /\ st[K_service_name] = S_generated_ \o st[K_model_name] \o S_service_py
            /\ (last.name = N_ModelAConfig /\ DeclaredNameType = S_dasherize) =>
                    /\ st[K_model_name] = <<"m","o","d","e","l","_","a">>
                    /\ st[K_start_name] = <<"m","o","d","e","l","-","a">>
                    /\ st[K_service_name] = <<"g","e","n","e","r","a","t","e","d","_","m","o","d","e","l","_","a","_","s","e","r","v","i","c","e",".","p","y">>

\* the class ConfigB, named ConfigBConfig by the declaration, is model "b"
C8_Witness ==
    /\ last.op = "declare" /\ last.kind = "ok" /\ last.name = N_ConfigB
    /\ Declared.name = N_ConfigB \o S_Config
    /\ SettingsOf(Declared)[K_model_name] = <<"b">>
    /\ Underscore(N_ConfigB) = <<"c","o","n","f","i","g","_","b">>

\* C9 (as stated): a settings block that lacks default_id or model_ids, or
\* gives an empty one, is rejected with a configuration error, so every
\* settings record has a non-empty default_id and a non-empty model_ids.
C9_RequiredSettings ==
    /\ (/\ last.op = "declare"
         /\ IsSome(last.config)
         /\ \E k \in {K_default_id, K_model_ids} :
               k \notin DOMAIN The(last.config) \/ Len(The(last.config)[k]) = 0) =>
            last.kind = "ValueError"
    /\ \A n \in DOMAIN classes :
          /\ Len(SettingsOf(classes[n])[K_default_id]) > 0
          /\ Len(SettingsOf(classes[n])[K_model_ids]) > 0

\* a declaration with an empty default_id and no model id went through
C9_Witness ==
    /\ last.op = "declare" /\ last.kind = "ok"
    /\ The(last.config)[K_default_id] = << >>
    /\ The(last.config)[K_model_ids] = << >>
    /\ SettingsOf(Declared)[K_default_id] = << >>

\* the value a field of the declared class reads from the environment e
EnvDefault(model_name, f, declared, e) ==
    LET key == S_SDSERVER \o S_US \o StrUpper(model_name) \o S_US \o StrUpper(f)
    IN  IF key \notin DOMAIN e THEN declared
        ELSE IF e[key] = <<"1">> THEN V1
        ELSE IF e[key] = <<"2">> THEN V2
        ELSE IF e[key] = <<"0",".","2">> THEN <<"0.2">>
        ELSE None

\* the defaults a declaration bakes and the defaults an instance takes
BakedDefaults ==
    /\ (last.op = "declare" /\ last.kind = "ok") =>
            \A f \in DOMAIN last.anns :
                Declared.fields[f] =
                    EnvDefault(SettingsOf(Declared)[K_model_name], f, last.anns[f], env)
    /\ (last.op = "construct" /\ last.kind = "ok") =>
            \A g \in DOMAIN Cur.fields \ DOMAIN last.args.kw :
                Cur.fields[g] = classes[last.cls].fields[g]

PlainTemperatureVar == <<"S","D","S","E","R","V","E","R","_","M","O","D","E","L","_","A","_","T","E","M","P","E","R","A","T","U","R","E">>

GenerationTemperatureVar == <<"S","D","S","E","R","V","E","R","_","M","O","D","E","L","_","A","_","G","E","N","E","R","A","T","I","O","N","_","T","E","M","P","E","R","A","T","U","R","E">>

\* an instance built without a temperature of its own has the default
\* temperature of its class
TemperatureFromClass ==
    (/\ last.op = "construct" /\ last.kind = "ok"
     /\ K_temperature \notin DOMAIN last.args.kw /\ last.args.gc = NoneArg) =>
        Cur.gen[K_temperature] = classes[last.cls].gen[K_temperature]

\* the declaration of a subtype named model_a while the variable is 0.2
DeclaredWith(var) ==
    /\ last.op = "declare" /\ last.kind = "ok"
    /\ SettingsOf(Declared)[K_model_name] = N_model_a
    /\ var \in DOMAIN env /\ env[var] = <<"0",".","2">>

\* C11 (as stated): for a subtype whose model name is model_a, the
\* variable SDSERVER_MODEL_A_TEMPERATURE=0.2, set when the subtype is
\* declared, makes 0.2 the default generation temperature of the instances
\* built afterwards, whatever default the code declares.
C11_PlainVariableIsDefault ==
    /\ DeclaredWith(PlainTemperatureVar) => Declared.gen[K_temperature] = <<"0.2">>
    /\ TemperatureFromClass

\* C11 (amended): the variable that does so is
\* SDSERVER_MODEL_A_GENERATION_TEMPERATURE; SDSERVER_MODEL_A_TEMPERATURE
\* alone leaves the default generation temperature as the code declares it.
C11_GenerationVariableIsDefault ==
    /\ DeclaredWith(GenerationTemperatureVar) => Declared.gen[K_temperature] = <<"0.2">>
    /\ (DeclaredWith(PlainTemperatureVar) /\ GenerationTemperatureVar \notin DOMAIN env) =>
            Declared.gen[K_temperature] =
                GenDefaultCallback(last.block, K_temperature, GenLibDefault[K_temperature])
    /\ TemperatureFromClass

\* an instance built without arguments, of a subtype whose GenerationConfig
\* block declares temperature = 2, has the temperature 0.2
C11_Witness ==
    /\ last.op = "construct" /\ last.kind = "ok"
    /\ last.args.kw = EmptyMap
    /\ classes[last.cls].block = Some(K_temperature :> V2)
    /\ Cur.gen[K_temperature] = <<"0.2">>

\* the blob variable of the class of the last call, and the mapping it
\* gives: the decoded object, or the empty mapping
BlobVar ==
    S_SDSERVER \o S_US \o StrUpper(SettingsOf(classes[last.cls])[K_model_name])
        \o <<"_","C","O","N","F","I","G">>

Blob ==
    IF BlobVar \notin DOMAIN env THEN EmptyMap
    ELSE IF env[BlobVar] = T_f1 THEN (K_f1 :> V2)
    ELSE IF env[BlobVar] = T_f1_foo THEN (K_f1 :> V2) @@ (K_foo :> V1)
    ELSE EmptyMap

BlobGeneration ==
    IF BlobVar \in DOMAIN env /\ env[BlobVar] = T_generation
    THEN (K_temperature :> V2) ELSE EmptyMap

\* the instance the last call returned
Returned == The(last.res.obj)

\* the declared fields after model_construct_env: the override that is not
\* None, else the entry of the blob, else the default
C12_FieldPrecedence ==
    (last.op = "model_construct_env" /\ last.kind = "ok") =>
        \A f \in DOMAIN Returned.fields :
            Returned.fields[f] =
                IF f \in DOMAIN last.args.kw /\ last.args.kw[f] # None
                THEN last.args.kw[f]
                ELSE IF f \in DOMAIN Blob THEN Blob[f]
                ELSE classes[last.cls].fields[f]

\* the generation fields after model_construct_env: the entry of the
\* explicit generation_config, else the scalar override that is not None,
\* else the entry of the blob's generation_config, else the default
C12_GenerationPrecedence ==
    (last.op = "model_construct_env" /\ last.kind = "ok") =>
        \A g \in DOMAIN Returned.gen :
            Returned.gen[g] =
                IF last.args.gc_kind = "mapping" /\ g \in DOMAIN last.args.gc
                THEN last.args.gc[g]
                ELSE IF g \in DOMAIN last.args.kw /\ last.args.kw[g] # None
                THEN last.args.kw[g]
                ELSE IF g \in DOMAIN BlobGeneration THEN BlobGeneration[g]
                ELSE classes[last.cls].gen[g]

\* C12 (as stated): model_construct_env resolves every field, declared or
\* of the generation sub-record, by one precedence: the override that is
\* not None, else the value the JSON blob of the config variable gives,
\* else the default; an explicit generation_config wins over a scalar
\* override of the same name.
C12_ConstructEnvPrecedence == C12_FieldPrecedence /\ C12_GenerationPrecedence

\* the blob gives temperature 2 in its generation_config, no override is
\* given, and the instance has the default temperature
C12_Witness ==
    /\ last.op = "model_construct_env" /\ last.kind = "ok"
    /\ BlobVar \in DOMAIN env /\ env[BlobVar] = T_generation
    /\ last.args.kw = EmptyMap /\ last.args.gc_kind = "absent"
    /\ Returned.gen[K_temperature] = classes[last.cls].gen[K_temperature]
    /\ Returned.gen[K_temperature] # V2

\* C13: when the config variable holds text that is not JSON,
\* model_construct_env raises a RuntimeError that names the variable and
\* returns no instance; when the variable is unset it raises no error
\* about the variable and does what it does for the empty object.
C13_MalformedBlob ==
    last.op = "model_construct_env" =>
        /\ (BlobVar \in DOMAIN env /\ env[BlobVar] \in {T_malformed, T_empty_text}) =>
              /\ last.kind = "RuntimeError"
              /\ last.res.names = Some(BlobVar)
              /\ last.res.obj = NoneArg
              /\ inst = NoneArg
        /\ BlobVar \notin DOMAIN env =>
              /\ last.res.names = NoneArg
              /\ last.kind = "RuntimeError" => last.args.gc_kind = "scalar"
              /\ last.res = ModelConstructEnv(classes[last.cls], last.args,
                                              (BlobVar :> T_empty_object) @@ env)

\* SDSERVER_MODEL_A_CONFIG holds '{f1' and the call raised
C13_Witness ==
    /\ last.op = "model_construct_env"
    /\ BlobVar = <<"S","D","S","E","R","V","E","R","_","M","O","D","E","L","_","A","_","C","O","N","F","I","G">>
    /\ BlobVar \in DOMAIN env /\ env[BlobVar] = T_malformed
    /\ last.kind = "RuntimeError" /\ last.res.names = Some(BlobVar)
    /\ inst = NoneArg

\* the environment variable of a declared field of the last declaration
FieldVar(f) ==
    S_SDSERVER \o S_US \o StrUpper(SettingsOf(Declared)[K_model_name]) \o S_US \o StrUpper(f)

\* C14: constructing an instance with no arguments succeeds exactly when
\* every declared field has a default, from the declaration or from its
\* environment variable at the declaration; it raises otherwise.
C14_NoArgumentConstruction ==
    /\ (last.op = "declare" /\ last.kind = "ok") =>
            \A f \in DOMAIN last.anns :
                (Declared.fields[f] # Nothing) <=>
                    (last.anns[f] # Nothing \/ FieldVar(f) \in DOMAIN env)
    /\ (/\ last.op = "construct"
         /\ last.args.kw = EmptyMap /\ last.args.gc = NoneArg /\ last.args.ex = NoneArg) =>
            /\ (last.kind = "ok") <=>
                    (\A f \in DOMAIN classes[last.cls].fields :
                        classes[last.cls].fields[f] # Nothing)
            /\ last.kind # "ok" => (last.kind = "TypeError" /\ inst = NoneArg)

\* an instance built with no arguments has f2 = 1: the field f2 has no
\* declared default, its variable was 1 at the declaration
C14_Witness ==
    /\ last.op = "construct" /\ last.kind = "ok"
    /\ last.args.kw = EmptyMap /\ last.args.gc = NoneArg /\ last.args.ex = NoneArg
    /\ K_f2 \in DOMAIN Cur.fields
    /\ Cur.fields[K_f2] = V1

\* the value of a selection flag in the environment as it is now
FlagNow(name) == IF name \in DOMAIN env THEN StrUpper(env[name]) ELSE <<"A","U","T","O">>

\* torch is selected by the flags as they are now, can be located and has
\* package metadata
TorchAvailableNow ==
    /\ FlagNow(E_USE_TORCH) \in {<<"1">>, <<"O","N">>, <<"Y","E","S">>, <<"T","R","U","E">>, <<"A","U","T","O">>}
    /\ FlagNow(E_USE_TF) \notin {<<"1">>, <<"O","N">>, <<"Y","E","S">>, <<"T","R","U","E">>}
    /\ site.torch_spec /\ site.torch_meta

\* C15 (as stated): every call of is_torch_available returns what the
\* selection flags and the package metadata give at the time of the call;
\* no earlier answer is kept, so 'unavailable' once is not 'unavailable'
\* for the rest of the process.
C15_ProbeIsCurrent ==
    last.op = "is_torch_available" => (last.val <=> TorchAvailableNow)

\* torch is installed, no flag is set now and none was set at the import,
\* and the probe answers 'unavailable' all the same
C15_Witness ==
    /\ last.op = "is_torch_available" /\ ~last.val
    /\ env = EmptyMap
    /\ site.torch_spec /\ site.torch_meta
    /\ The(mod).USE_TORCH = S_AUTO /\ The(mod).USE_TF = S_AUTO

\* C16 (as stated): require_backends raises ImportError exactly when a
\* required backend is unavailable, and nothing else; the message is the
\* template of the backend, and the cross-reference message is used only
\* when tensorflow is installed in place of the missing torch.
C16_RequireBackends ==
    last.op = "require_backends" =>
        /\ last.kind \in {"ok", "ImportError"}
        /\ (\A j \in DOMAIN last.backends : last.backends[j] = "torch") =>
              ((last.kind = "ImportError") <=>
                  (Len(last.backends) > 0 /\ ~The(mod).torch_available))
        /\ last.kind = "ImportError" =>
              last.msg = IF site.tf_spec THEN <<"PYTORCH_IMPORT_ERROR_WITH_TF">>
                         ELSE <<"PYTORCH_IMPORT_ERROR">>

\* torch is required and missing, tensorflow is not installed, and the
\* message is the one that speaks of a TensorFlow installation
C16_Witness ==
    /\ last.op = "require_backends" /\ last.backends = <<"torch">>
    /\ last.kind = "ImportError"
    /\ last.msg = <<"PYTORCH_IMPORT_ERROR_WITH_TF">>
    /\ ~site.tf_spec /\ ~The(mod).tf_available

\* the two prefixes of the class of the last call
ClickPrefix == SettingsOf(classes[last.cls])[K_model_name] \o <<"_">>

ClickGenerationPrefix == ClickPrefix \o <<"g","e","n","e","r","a","t","i","o","n","_">>

\* C17: model_validate_click partitions its keywords by prefix: a key
\* <model_name>_generation_<g> is the generation parameter g, any other
\* key <model_name>_<f> is the override f, both handed to
\* model_construct_env, and the leftover mapping holds exactly the entries
\* whose key does not start with <model_name>_, values unchanged.
C17_ClickPartition ==
    last.op = "model_validate_click" =>
        LET G == {k \in DOMAIN last.args : StartsWith(k, ClickGenerationPrefix)}
            F == {k \in DOMAIN last.args \ G : StartsWith(k, ClickPrefix)}
        IN  /\ \A k \in G :
                  LET g == DropPrefix(k, Len(ClickGenerationPrefix))
                  IN  g \in DOMAIN last.part.gen /\ last.part.gen[g] = last.args[k]
            /\ Cardinality(DOMAIN last.part.gen) = Cardinality(G)
            /\ \A k \in F :
                  LET f == DropPrefix(k, Len(ClickPrefix))
                  IN  f \in DOMAIN last.part.fields /\ last.part.fields[f] = last.args[k]
            /\ Cardinality(DOMAIN last.part.fields) = Cardinality(F)
            /\ DOMAIN last.part.leftover =
                  {k \in DOMAIN last.args : ~StartsWith(k, ClickPrefix)}
            /\ \A k \in DOMAIN last.part.leftover : last.part.leftover[k] = last.args[k]
            /\ last.res = ModelConstructEnv(classes[last.cls],
                                            [kw |-> last.part.fields, gc_kind |-> "mapping",
                                             gc |-> last.part.gen], env)

\* every flag given to an instance of model_a: the temperature is taken as
\* a generation parameter, f1 as an override, and two flags are left over
C17_Witness ==
    /\ last.op = "model_validate_click" /\ last.kind = "ok"
    /\ DOMAIN last.args = ClickKeys
    /\ last.part.gen = (K_temperature :> V1)
    /\ DOMAIN last.part.fields = {K_f1, S_generation}
    /\ last.part.leftover = (CK_modela_f1 :> V1) @@ (CK_port :> V2)
    /\ Returned.gen[K_temperature] = V1
    /\ Returned.fields[K_f1] = V1

\* the environment variable of a generation field of the last declaration
GenerationVar(g) ==
    S_SDSERVER \o S_US \o StrUpper(SettingsOf(Declared)[K_model_name])
        \o <<"_","G","E","N","E","R","A","T","I","O","N","_">> \o StrUpper(g)

\* the value a text of the environment stands for
Decoded(text) ==
    IF text = <<"T","R","U","E">> THEN <<"True">>
    ELSE IF text = <<"0",".","2">> THEN <<"0.2">>
    ELSE text

\* the library-wide defaults
LibraryDefault(g) == IF g = K_temperature THEN <<"0.9">> ELSE <<"50">>

\* C18: the default of a generation field is the value of its own
\* variable SDSERVER_<MODEL>_GENERATION_<FIELD> when the variable is set
\* at the declaration, else the value the subtype's GenerationConfig block
\* declares for it, else the library-wide default.
C18_GenerationDefaultChain ==
    (last.op = "declare" /\ last.kind = "ok") =>
        /\ DOMAIN Declared.gen = {K_temperature, K_top_k}
        /\ \A g \in DOMAIN Declared.gen :
              Declared.gen[g] =
                  IF GenerationVar(g) \in DOMAIN env THEN Decoded(env[GenerationVar(g)])
                  ELSE IF IsSome(last.block) /\ g \in DOMAIN The(last.block)
                  THEN The(last.block)[g]
                  ELSE LibraryDefault(g)

\* a subtype whose block declares temperature = 2 and nothing for top_k,
\* declared while no variable is set
C18_Witness ==
    /\ last.op = "declare" /\ last.kind = "ok"
    /\ last.block = Some(K_temperature :> V2)
    /\ env = EmptyMap
    /\ Declared.gen[K_temperature] = V2
    /\ Declared.gen[K_top_k] = <<"50">>

\* C19 (as stated): in a construction, a keyword that names a generation
\* field is merged into the generation input only when the explicit
\* generation_config does not hold that key; when both give the key, the
\* sub-record receives the value of the explicit generation_config.
C19_ExplicitGenerationWins ==
    (last.op = "construct" /\ last.kind = "ok") =>
        /\ IsSome(last.args.gc) =>
              \A g \in DOMAIN The(last.args.gc) : Cur.gen[g] = The(last.args.gc)[g]
        /\ \A g \in DOMAIN last.args.kw \cap DOMAIN Cur.gen :
              (~IsSome(last.args.gc) \/ g \notin DOMAIN The(last.args.gc)) =>
                    Cur.gen[g] = last.args.kw[g]

\* generation_config = {temperature: 2} and the keyword temperature = 1:
\* the instance has the temperature 1
C19_Witness ==
    /\ last.op = "construct" /\ last.kind = "ok"
    /\ last.args.gc = Some(K_temperature :> V2)
    /\ K_temperature \in DOMAIN last.args.kw /\ last.args.kw[K_temperature] = V1
    /\ Cur.gen[K_temperature] = V1

\* C20: once a subtype is declared, no operation of the public interface
\* changes its settings block, the class attributes derived from it, its
\* generation class or its accepted keys; a subtype stays declared.
C20_SettingsWrittenOnce ==
    [][\A n \in DOMAIN classes :
          /\ n \in DOMAIN classes'
          /\ classes'[n].config = classes[n].config
          /\ SettingsOf(classes'[n]) = SettingsOf(classes[n])
          /\ classes'[n].gen = classes[n].gen
          /\ classes'[n].accepted = classes[n].accepted]_vars

\* model_derivate(url=0) made a subtype whose block has the new url, and
\* the parent's block has the url it was declared with
C20_Witness ==
    /\ last.op = "model_derivate" /\ last.kind = "ok"
    /\ K_url \in DOMAIN last.attrs /\ last.attrs[K_url] = V0
    /\ Derived.config[K_url] = V0
    /\ classes[last.cls].config[K_url] = V_http
    /\ SettingsOf(classes[last.cls])[K_url] = V_http


C22_ModelDumpFlatten ==
    last.op = "model_dump" =>
        IF last.flatten
        THEN /\ DOMAIN last.res = DOMAIN Cur.fields \cup DOMAIN Cur.gen
             /\ K_generation_config \notin DOMAIN last.res
             /\ \A g \in DOMAIN Cur.gen : last.res[g] = Cur.gen[g]
             /\ \A f \in DOMAIN Cur.fields \ DOMAIN Cur.gen :
                    last.res[f] = Cur.fields[f]
        ELSE /\ DOMAIN last.res = DOMAIN Cur.fields \cup {K_generation_config}
             /\ last.res[K_generation_config] = ObjMapping(Cur.gen)
             /\ \A f \in DOMAIN Cur.fields : last.res[f] = Cur.fields[f]

\* a flattened dump of an instance whose declared field temperature and
\* generation field temperature differ
C22_Witness ==
    /\ last.op = "model_dump" /\ last.flatten
    /\ K_temperature \in DOMAIN Cur.fields
    /\ Cur.fields[K_temperature] # Cur.gen[K_temperature]
    /\ last.res[K_temperature] = Cur.gen[K_temperature]


\* the settings block of the declaration last made, completed with the
\* defaults of the schema, and whether structure_settings accepts its keys
LastBlock == The(last.config) @@ ModelSettingsDefault

LastBlockAccepted ==
    /\ last.op = "declare" /\ IsSome(last.config) /\ last.unann = << >>
    /\ K_generation_class \notin DOMAIN The(last.config)
    /\ SettingsAccepted(The(last.config))

\* the variable of the model for the flag, named as every other variable
BetterTransformerVar ==
    FieldEnvKey(ModelName(ClName(ClassName(last.name)), LastBlock[K_name_type]),
                A_bettertransformer, << >>)

\* C23 as stated: the settings record of a declaration has the flag false
\* when requires_gpu is true; when requires_gpu is false and the flag is
\* not set in the block, the record has the flag true exactly when the
\* variable of the model holds a truthy text.
C23_FlagFromEnvironment ==
    LastBlockAccepted =>
        /\ Truthy(LastBlock[K_requires_gpu])
              => /\ last.kind = "ok"
                 /\ SettingsOf(Declared)[K_bettertransformer] = VFalse
        /\ (~Truthy(LastBlock[K_requires_gpu]) /\ LastBlock[K_bettertransformer] = None)
              => /\ last.kind = "ok"
                 /\ (SettingsOf(Declared)[K_bettertransformer] = VTrue
                        <=> EnvGetUpper(env, BetterTransformerVar, S_False)
                                \in ENV_VARS_TRUE_VALUES)

\* What holds of the flag: a record is made only of a block that sets the
\* flag; it has the flag false when requires_gpu is true and the value of
\* the block otherwise.
C23_FlagOfRecord ==
    (LastBlockAccepted /\ last.kind = "ok") =>
        /\ LastBlock[K_bettertransformer] # None
        /\ SettingsOf(Declared)[K_bettertransformer] =
              IF Truthy(LastBlock[K_requires_gpu]) THEN VFalse
              ELSE LastBlock[K_bettertransformer]

\* the variable of the model holds "1", the block sets neither
\* requires_gpu nor the flag, and the declaration raised AttributeError
C23_Witness ==
    /\ LastBlockAccepted
    /\ BetterTransformerVar \in DOMAIN env /\ env[BetterTransformerVar] = <<"1">>
    /\ K_bettertransformer \notin DOMAIN The(last.config)
    /\ K_requires_gpu \notin DOMAIN The(last.config)
    /\ last.kind = "AttributeError"
    /\ classes = << >>

\* requires_gpu and the flag are both set true and the record has the
\* flag false
C23_WitnessForced ==
    /\ LastBlockAccepted /\ last.kind = "ok"
    /\ LastBlock[K_requires_gpu] = VTrue /\ LastBlock[K_bettertransformer] = VTrue
    /\ SettingsOf(Declared)[K_bettertransformer] = VFalse


\* the keywords of the construction last made that name a declared field
\* which is no generation field, with a value that is not None
FieldKeywords ==
    {k \in DOMAIN last.args.kw :
        /\ k \in DOMAIN classes[last.cls].fields
        /\ k \notin DOMAIN classes[last.cls].gen
        /\ last.args.kw[k] # None}

\* C24 as stated: a keyword that names a declared field which is no
\* generation field, with a value that is not None, is the value of the
\* field of the instance, whatever extras mapping the caller gives.
C24_KeywordReachesField ==
    (last.op = "construct" /\ last.kind = "ok") =>
        \A k \in FieldKeywords : Cur.fields[k] = last.args.kw[k]

\* What holds: such a keyword is the value of the field unless the extras
\* mapping of the caller has an entry of the same name.
C24_KeywordReachesFieldUnlessInExtras ==
    (last.op = "construct" /\ last.kind = "ok") =>
        \A k \in FieldKeywords :
            (IsSome(last.args.ex) /\ k \in DOMAIN The(last.args.ex))
                \/ Cur.fields[k] = last.args.kw[k]

\* f1=1 was given with an extras mapping that has an entry f1, and the
\* field f1 of the instance is the default of the class
C24_Witness ==
    /\ last.op = "construct" /\ last.kind = "ok"
    /\ K_f1 \in FieldKeywords /\ last.args.kw[K_f1] = V1
    /\ IsSome(last.args.ex) /\ K_f1 \in DOMAIN The(last.args.ex)
    /\ Cur.fields[K_f1] = classes[last.cls].fields[K_f1]
    /\ Cur.fields[K_f1] # V1


\* C25 as stated: a construction leaves the generation_config mapping and
\* the extras mapping of the caller as they were given.
C25_CallerMappingsUnchanged ==
    last.op = "construct" =>
        /\ last.gc_after = last.args.gc
        /\ last.ex_after = last.args.ex

\* What holds: the generation_config mapping of the caller changes only
\* in the entries that a keyword names, the extras mapping only in the
\* entries that a keyword which is no declared field names.
C25_CallerMappingsChangeByKeyword ==
    last.op = "construct" =>
        /\ IsSome(last.args.gc) =>
              \A k \in DOMAIN The(last.args.gc) \ DOMAIN last.args.kw :
                  The(last.gc_after)[k] = The(last.args.gc)[k]
        /\ IsSome(last.args.ex) =>
              \A k \in DOMAIN The(last.args.ex) :
                  (k \in DOMAIN last.args.kw /\ k \notin classes[last.cls].accepted)
                      \/ The(last.ex_after)[k] = The(last.args.ex)[k]

\* generation_config={'temperature': 2} was given with temperature=1, and
\* the mapping of the caller holds temperature 1 after the call
C25_Witness ==
    /\ last.op = "construct"
    /\ last.args.gc = Some(K_temperature :> V2)
    /\ K_temperature \in DOMAIN last.args.kw /\ last.args.kw[K_temperature] = V1
    /\ The(last.gc_after)[K_temperature] = V1


\* the keywords of the construction last made that were given as None
NoneKeywords == {k \in DOMAIN last.args.kw : last.args.kw[k] = None}

\* the same construction without the keyword k
Omitting(k) ==
    InitInstance(classes[last.cls], last.args.gc, last.args.ex,
                 Without(last.args.kw, {k}))

\* the construction last made came out as the one without the keyword k:
\* both raise, or both make the same fields, generation parameters and
\* extras
SameAsOmitting(k) ==
    /\ Omitting(k).ok <=> last.kind = "ok"
    /\ last.kind = "ok" => Omitting(k).obj = Cur

\* C26 as stated: a keyword given as None is a keyword not given, for
\* the names of declared fields, of generation fields and for unknown
\* names.
C26_NoneIsOmitted ==
    last.op = "construct" => \A k \in NoneKeywords : SameAsOmitting(k)

\* What holds: a keyword given as None is a keyword not given when it
\* does not name a generation field.
C26_NoneIsOmittedOutsideGeneration ==
    last.op = "construct" =>
        \A k \in NoneKeywords \ DOMAIN classes[last.cls].gen : SameAsOmitting(k)

\* temperature=None was given alone, and the generation temperature of
\* the instance is None and not the default of the class
C26_Witness ==
    /\ last.op = "construct" /\ last.kind = "ok"
    /\ last.args.kw = (K_temperature :> None)
    /\ last.args.gc = NoneArg /\ last.args.ex = NoneArg
    /\ Cur.gen[K_temperature] = None
    /\ classes[last.cls].gen[K_temperature] # None
    /\ Omitting(K_temperature).obj.gen[K_temperature] = classes[last.cls].gen[K_temperature]

=============================================================================
